---- MODULE Spec2Model ----
(***************************************************************************)
(* Model of the voting application in src/logic.py: FileManager (the CSV   *)
(* vote log) and the ProjectWindow handlers on_button_click (castVote),    *)
(* view_results (getResults) and reset_votes (resetElection).              *)
(*                                                                         *)
(* A Python string is a sequence of one-character strings, so that strip() *)
(* and int() are computed rather than assumed.  A CSV file is a sequence   *)
(* of lines, each line the sequence of its fields; the first line is the   *)
(* header that csv.DictReader turns into the keys of every row.            *)
(***************************************************************************)
EXTENDS Integers, Sequences, FiniteSets, TLC

VARIABLES fs, filename, label, error, dialog, last, succeeded, wiped,
          former, fault, pc, voter_id, name, total_votes, result

vars == <<fs, filename, label, error, dialog, last, succeeded, wiped,
          former, fault, pc, voter_id, name, total_votes, result>>

guiVars == <<label, error, dialog, last, succeeded, wiped, former, fault>>
procVars == <<pc, voter_id, name, total_votes, result>>

(***************************************************************************)
(* Bounds                                                                  *)
(***************************************************************************)
\* most records the log may hold before castVote is no longer offered
MaxRecords == 2

(***************************************************************************)
(* Strings                                                                 *)
(***************************************************************************)
Digits == <<"0", "1", "2", "3", "4", "5", "6", "7", "8", "9">>

DigitSet == {Digits[i] : i \in 1..Len(Digits)}

IsSpace(c) == c = " "

RECURSIVE LStrip(_)
LStrip(s) == IF s # <<>> /\ IsSpace(Head(s)) THEN LStrip(Tail(s)) ELSE s

RECURSIVE RStrip(_)
RStrip(s) ==
    IF s # <<>> /\ IsSpace(s[Len(s)]) THEN RStrip(SubSeq(s, 1, Len(s) - 1)) ELSE s

\* str.strip()
Strip(s) == RStrip(LStrip(s))

\* the digits-with-underscores body of an integer literal accepted by int()
IsDigitBody(s) ==
    /\ s # <<>>
    /\ \A i \in 1..Len(s) : s[i] \in DigitSet \cup {"_"}
    /\ s[1] # "_"
    /\ s[Len(s)] # "_"
    /\ \A i \in 1..(Len(s) - 1) : ~(s[i] = "_" /\ s[i + 1] = "_")

\* TRUE iff int(s) returns, FALSE iff it raises ValueError
IsInt(s) ==
    LET t == Strip(s)
        body == IF t # <<>> /\ Head(t) \in {"+", "-"} THEN Tail(t) ELSE t
    IN  IsDigitBody(body)

DigitValue(c) == (CHOOSE i \in 1..Len(Digits) : Digits[i] = c) - 1

RECURSIVE BodyValue(_, _)
BodyValue(s, acc) ==
    IF s = <<>> THEN acc
    ELSE IF Head(s) = "_" THEN BodyValue(Tail(s), acc)
    ELSE BodyValue(Tail(s), 10 * acc + DigitValue(Head(s)))

\* the value of int(s), where IsInt(s)
IntValue(s) ==
    LET t == Strip(s)
    IN  IF Head(t) = "-" THEN 0 - BodyValue(Tail(t), 0)
        ELSE IF Head(t) = "+" THEN BodyValue(Tail(t), 0)
        ELSE BodyValue(t, 0)

\* str(n) for a natural number n
RECURSIVE Str(_)
Str(n) ==
    IF n < 10 THEN <<Digits[n + 1]>>
    ELSE Str(n \div 10) \o <<Digits[(n % 10) + 1]>>

\* ProjectWindow.validate_input
validate_input(input_text) == Strip(input_text) # <<>>

Jane == <<"J", "a", "n", "e">>
John == <<"J", "o", "h", "n">>
VoterID == <<"V", "o", "t", "e", "r", "I", "D">>
Vote == <<"V", "o", "t", "e">>
Total == <<"T", "o", "t", "a", "l">>

\* fieldnames of the csv.DictWriter in _ensure_file_exists and log_vote
Header == <<VoterID, Vote, Total>>

(***************************************************************************)
(* Files                                                                   *)
(***************************************************************************)
Filenames == {"data.csv", "votes.csv"}

\* a path with no file behind it
NoFile == [exists |-> FALSE, lines |-> <<>>]

File(lines) == [exists |-> TRUE, lines |-> lines]

\* os.path.exists
Exists(fsys, path) == fsys[path].exists

\* csv.DictReader(file).fieldnames: the first line, None for an empty file
Fieldnames(file) == IF file.lines = <<>> THEN <<>> ELSE file.lines[1]

HasFieldnames(file) == file.lines # <<>>

Range(s) == {s[i] : i \in 1..Len(s)}

\* one row of csv.DictReader: the header's names mapped to the line's fields
DictRow(header, line) ==
    [k \in Range(header) |->
        LET i == CHOOSE j \in 1..Len(header) :
                    header[j] = k /\ \A m \in (j + 1)..Len(header) : header[m] # k
        IN  IF i <= Len(line) THEN line[i] ELSE <<>>]

\* the rows csv.DictReader iterates over, in file order
Rows(file) ==
    IF file.lines = <<>> THEN <<>>
    ELSE [i \in 1..(Len(file.lines) - 1) |-> DictRow(file.lines[1], file.lines[i + 1])]

(***************************************************************************)
(* FileManager                                                             *)
(***************************************************************************)
\* _ensure_file_exists opening the file with mode 'w' whether it exists or not
EnsureFileExistsTruncating(fsys, path) == [fsys EXCEPT ![path] = File(<<Header>>)]

\* FileManager._ensure_file_exists: write the header unless the path exists
EnsureFileExists(fsys, path) ==
    IF ~Exists(fsys, path) THEN [fsys EXCEPT ![path] = File(<<Header>>)]
    ELSE fsys

\* log_vote without "total_votes += 1"
CountVotesNoIncrement(fsys, path) ==
    LET rows == IF Exists(fsys, path) THEN Rows(fsys[path]) ELSE <<>>
    IN  Cardinality({i \in 1..Len(rows) : VoterID \in DOMAIN rows[i]})

\* FileManager.log_vote, the read: one more than the rows that have a VoterID
CountVotes(fsys, path) ==
    LET rows == IF Exists(fsys, path) THEN Rows(fsys[path]) ELSE <<>>
    IN  Cardinality({i \in 1..Len(rows) : VoterID \in DOMAIN rows[i]}) + 1

\* log_vote opening the file with mode 'w' instead of 'a'
AppendVoteTruncating(fsys, path, voter, choice, total) ==
    [fsys EXCEPT ![path] = File(<<Header, <<voter, choice, Str(total)>>>>)]

\* FileManager.log_vote, the write: open for append (creating the file),
\* write the header if the file is empty, then the row
AppendVote(fsys, path, voter, choice, total) ==
    LET old == IF Exists(fsys, path) THEN fsys[path].lines ELSE <<>>
        headed == IF old = <<>> THEN <<Header>> ELSE old
    IN  [fsys EXCEPT ![path] = File(Append(headed, <<voter, choice, Str(total)>>))]

\* FileManager.log_vote
LogVote(fsys, path, voter, choice) ==
    AppendVote(fsys, path, voter, choice, CountVotes(fsys, path))

\* dict.get(key, default)
Get(d, key, default) == IF key \in DOMAIN d THEN d[key] ELSE default

\* d[key] = value
Put(d, key, value) == (key :> value) @@ d

\* the loop of FileManager.read_results over the rows from the i-th on
RECURSIVE Aggregate(_, _, _, _)
Aggregate(rows, i, results, total) ==
    IF i > Len(rows) THEN Put(results, Total, total)
    ELSE LET row == rows[i]
         IN  IF {Jane, John, Total} \subseteq DOMAIN row /\ VoterID \notin DOMAIN row
             THEN Aggregate(rows, i + 1,
                            Put(Put(results, Jane, IntValue(row[Jane])),
                                John, IntValue(row[John])),
                            IntValue(row[Total]))
             ELSE IF Vote \in DOMAIN row
             THEN Aggregate(rows, i + 1,
                            Put(results, row[Vote], Get(results, row[Vote], 0) + 1),
                            total + 1)
             ELSE Aggregate(rows, i + 1, results, total)

\* FileManager.read_results; an unreadable file leaves the two defaults only
ReadResults(fsys, path) ==
    LET results == (Jane :> 0) @@ (John :> 0)
    IN  IF Exists(fsys, path) THEN Aggregate(Rows(fsys[path]), 1, results, 0)
        ELSE results

\* os.remove that deletes nothing
RemoveNothing(fsys, path) == fsys

\* os.remove: the path is gone afterwards, whether or not it was there
Remove(fsys, path) == [fsys EXCEPT ![path] = NoFile]

\* reset_counts that recreates the file only when os.remove raised
ResetCountsNoRecreate(fsys, path) ==
    IF Exists(fsys, "data.csv") THEN Remove(fsys, "data.csv")
    ELSE EnsureFileExists(fsys, path)

\* reset_counts without the os.remove
ResetCountsSkipRemove(fsys, path) == EnsureFileExists(fsys, path)

\* FileManager.reset_counts: removes 'data.csv', then _ensure_file_exists
ResetCounts(fsys, path) == EnsureFileExists(Remove(fsys, "data.csv"), path)

(***************************************************************************)
(* ProjectWindow                                                           *)
(***************************************************************************)
\* the duplicate test taking the first record for the header
HasVotedSkipFirst(rows, voter) == \E i \in 2..Len(rows) : rows[i][VoterID] = voter

\* the duplicate test comparing the IDs as numbers
HasVotedByValue(rows, voter) ==
    \E i \in 1..Len(rows) : IntValue(rows[i][VoterID]) = IntValue(voter)

\* the duplicate test of on_button_click: any(voter_id == row["VoterID"])
HasVoted(rows, voter) == \E i \in 1..Len(rows) : rows[i][VoterID] = voter

\* on_button_click looking up the text of idInput as typed, not stripped
CheckVoterUnstripped(fsys, path, idText) ==
    LET voter == Strip(idText)
    IN  IF ~validate_input(voter) THEN "Voter ID is required."
        ELSE IF ~IsInt(voter) THEN "Voter ID must be a number."
        ELSE IF ~Exists(fsys, path) THEN "Error reading file."
        ELSE IF ~HasFieldnames(fsys[path]) THEN "TypeError"
        ELSE IF VoterID \notin Range(Fieldnames(fsys[path]))
            THEN "CSV file is missing the required 'VoterID' column."
        ELSE IF \E i \in 1..Len(Rows(fsys[path])) : Rows(fsys[path])[i][VoterID] = idText
            THEN "This Voter ID has already been used. You cannot vote again."
        ELSE ""

\* on_button_click up to the end of the duplicate check: the message of the
\* error box it raises, "" when the vote may go on
CheckVoter(fsys, path, idText) ==
    LET voter == Strip(idText)
    IN  IF ~validate_input(voter) THEN "Voter ID is required."
        ELSE IF ~IsInt(voter) THEN "Voter ID must be a number."
        ELSE IF ~Exists(fsys, path) THEN "Error reading file."
        ELSE IF ~HasFieldnames(fsys[path]) THEN "TypeError"
        ELSE IF VoterID \notin Range(Fieldnames(fsys[path]))
            THEN "CSV file is missing the required 'VoterID' column."
        ELSE IF HasVoted(Rows(fsys[path]), voter)
            THEN "This Voter ID has already been used. You cannot vote again."
        ELSE ""

\* on_button_click logging "Jane" in the johnRadio branch as well
ChoiceJohnAsJane(selection, lineText) ==
    LET user_input == Strip(lineText)
    IN  IF selection \in {"jane", "john"} THEN [error |-> "", name |-> Jane]
        ELSE IF selection = "other"
        THEN IF validate_input(user_input)
             THEN IF IsInt(user_input)
                  THEN [error |-> "Please enter a valid name, not a number.",
                        name |-> <<>>]
                  ELSE [error |-> "", name |-> user_input]
             ELSE [error |-> "Invalid input. Please enter non-empty text.",
                   name |-> <<>>]
        ELSE [error |-> "Please select an option.", name |-> <<>>]

\* on_button_click, the radio buttons: the candidate voted for, or the
\* message of the error box
Choice(selection, lineText) ==
    LET user_input == Strip(lineText)
    IN  IF selection = "jane" THEN [error |-> "", name |-> Jane]
        ELSE IF selection = "john" THEN [error |-> "", name |-> John]
        ELSE IF selection = "other"
        THEN IF validate_input(user_input)
             THEN IF IsInt(user_input)
                  THEN [error |-> "Please enter a valid name, not a number.",
                        name |-> <<>>]
                  ELSE [error |-> "", name |-> user_input]
             ELSE [error |-> "Invalid input. Please enter non-empty text.",
                   name |-> <<>>]
        ELSE [error |-> "Please select an option.", name |-> <<>>]

\* the error kind a message box of on_button_click stands for
ErrorKind(message) ==
    IF message = "" THEN "none"
    ELSE IF message \in {"Voter ID is required.", "Voter ID must be a number.",
                         "Please enter a valid name, not a number.",
                         "Invalid input. Please enter non-empty text.",
                         "Please select an option."}
         THEN "InvalidInputError"
    ELSE IF message = "This Voter ID has already been used. You cannot vote again."
         THEN "DuplicateVoterError"
    ELSE "StorageError"

NoLabel == [text |-> "", name |-> <<>>]
Thanks(choice) == [text |-> "Thank you for voting for", name |-> choice]
ResetLabel == [text |-> "Votes reset successfully!", name |-> <<>>]

\* view_results: data.pop("Total", 0), then one label per remaining item
PopTotal(data) ==
    [total |-> Get(data, Total, 0),
     counts |-> [c \in DOMAIN data \ {Total} |-> data[c]]]

NoDialog == [open |-> FALSE, total |-> 0, counts |-> <<>>]

\* what the user may type into idInput
VoterTexts == {<<>>, <<"1">>, <<" ", "1">>, <<"0", "1">>, <<"2">>, <<"a">>}

Selections == {"jane", "john", "other", "none"}

\* what the user may type into lineEdit, shown while otherRadio is checked
LineTexts == {<<>>, <<"7">>, <<"A", "l">>, Total}

\* the VoterID column of the file's rows
StoredVoters(fsys, path) ==
    IF Exists(fsys, path)
    THEN {Rows(fsys[path])[i][VoterID] : i \in 1..Len(Rows(fsys[path]))}
    ELSE {}

NumRecords(fsys, path) ==
    IF Exists(fsys, path) /\ fsys[path].lines # <<>> THEN Len(fsys[path].lines) - 1
    ELSE 0

Init ==
    /\ filename = "data.csv"
    /\ fs = EnsureFileExists([f \in Filenames |-> NoFile], filename)
    /\ label = NoLabel
    /\ error = ""
    /\ dialog = NoDialog
    /\ last = [op |-> "init", id |-> <<>>, selection |-> "none", text |-> <<>>]
    /\ succeeded = 0
    /\ wiped = 0
    /\ former = {}
    /\ fault = "none"
    /\ pc = [p \in {1, 2} |-> "idle"]
    /\ voter_id = [p \in {1, 2} |-> <<>>]
    /\ name = [p \in {1, 2} |-> <<>>]
    /\ total_votes = [p \in {1, 2} |-> 0]
    /\ result = [p \in {1, 2} |-> ""]

\* ProjectWindow.on_button_click with idText in idInput, the radio button
\* selection checked and lineText in lineEdit
OnButtonClick(idText, selection, lineText) ==
    \E checked \in {CheckVoter(fs, filename, idText)},
       choice \in {Choice(selection, lineText)} :
        \E accepted \in {checked = "" /\ choice.error = ""} :
            /\ accepted => NumRecords(fs, filename) < MaxRecords
            /\ fs' = IF accepted
                     THEN LogVote(fs, filename, Strip(idText), choice.name)
                     ELSE fs
            /\ label' = IF accepted THEN Thanks(choice.name) ELSE label
            /\ error' = IF checked # "" THEN checked ELSE choice.error
            /\ succeeded' = IF accepted THEN succeeded + 1 ELSE succeeded
            /\ wiped' = IF accepted THEN 0 ELSE wiped
            /\ former' = IF last.op = "reset" THEN former ELSE {}
            /\ dialog' = NoDialog
            /\ last' = [op |-> "castVote", id |-> idText, selection |-> selection,
                        text |-> lineText]
            /\ UNCHANGED <<filename, fault, procVars>>

\* ProjectWindow.view_results
ViewResults ==
    LET data == ReadResults(fs, filename)
    IN  /\ dialog' = [open |-> TRUE, total |-> PopTotal(data).total,
                      counts |-> PopTotal(data).counts]
        /\ error' = ""
        /\ last' = [op |-> "getResults", id |-> <<>>, selection |-> "none",
                    text |-> <<>>]
        /\ former' = {}
        /\ UNCHANGED <<fs, filename, label, succeeded, wiped, fault, procVars>>

\* ProjectWindow.reset_votes
ResetVotes ==
    /\ fs' = ResetCounts(fs, filename)
    /\ label' = ResetLabel
    /\ error' = ""
    /\ dialog' = NoDialog
    /\ succeeded' = 0
    /\ wiped' = NumRecords(fs, filename)
    /\ former' = StoredVoters(fs, filename)
    /\ last' = [op |-> "reset", id |-> <<>>, selection |-> "none", text |-> <<>>]
    /\ UNCHANGED <<filename, fault, procVars>>

CastVote ==
    \E idText \in VoterTexts, selection \in Selections :
        \E lineText \in (IF selection = "other" THEN LineTexts ELSE {<<>>}) :
            OnButtonClick(idText, selection, lineText)

Next == CastVote \/ ViewResults \/ ResetVotes

Spec == Init /\ [][Next]_vars

(***************************************************************************)
(* Two callers on the same file                                            *)
(*                                                                         *)
(* on_button_click and log_vote open the file three times: to look for the *)
(* voter ID, to count the rows, and to append.  Nothing in the code locks  *)
(* the file between the three, so with two callers (two windows on the     *)
(* same data.csv) each opening is a step of its own.                       *)
(***************************************************************************)
Procs == {1, 2}

\* what either caller may type into idInput
CallerTexts == {<<"1">>, <<"2">>, <<"a">>}

\* rows about to be appended by callers that are inside log_vote
Pending == Cardinality({p \in Procs : pc[p] # "idle"})

\* on_button_click of caller p down to the call of log_vote: the input
\* checks, the duplicate scan of the file and the radio buttons
Click(p, idText, selection, lineText) ==
    /\ pc[p] = "idle"
    /\ \E checked \in {CheckVoter(fs, filename, idText)},
          choice \in {Choice(selection, lineText)} :
         \E accepted \in {checked = "" /\ choice.error = ""} :
            /\ accepted => NumRecords(fs, filename) + Pending < MaxRecords
            /\ pc' = [pc EXCEPT ![p] = IF accepted THEN "log_vote" ELSE "idle"]
            /\ voter_id' = [voter_id EXCEPT
                              ![p] = IF accepted THEN Strip(idText) ELSE <<>>]
            /\ name' = [name EXCEPT ![p] = IF accepted THEN choice.name ELSE <<>>]
            /\ total_votes' = [total_votes EXCEPT ![p] = 0]
            /\ result' = [result EXCEPT
                            ![p] = IF accepted THEN "pending"
                                   ELSE IF checked # "" THEN ErrorKind(checked)
                                   ELSE ErrorKind(choice.error)]
    /\ UNCHANGED <<fs, filename, guiVars>>

\* log_vote of caller p, the read: count the rows
CountStep(p) ==
    /\ pc[p] = "log_vote"
    /\ total_votes' = [total_votes EXCEPT ![p] = CountVotes(fs, filename)]
    /\ pc' = [pc EXCEPT ![p] = "append"]
    /\ UNCHANGED <<fs, filename, guiVars, voter_id, name, result>>

\* log_vote of caller p, the write, and the thank-you label after it
AppendStep(p) ==
    /\ pc[p] = "append"
    /\ fs' = AppendVote(fs, filename, voter_id[p], name[p], total_votes[p])
    /\ result' = [result EXCEPT ![p] = "ok"]
    /\ pc' = [pc EXCEPT ![p] = "idle"]
    /\ UNCHANGED <<filename, guiVars, voter_id, name, total_votes>>

ClickAny ==
    \E p \in Procs, idText \in CallerTexts, selection \in Selections :
        \E lineText \in (IF selection = "other" THEN LineTexts ELSE {<<>>}) :
            Click(p, idText, selection, lineText)

CountAny == \E p \in Procs : CountStep(p)

AppendAny == \E p \in Procs : AppendStep(p)

NextConc == ClickAny \/ CountAny \/ AppendAny

SpecConc == Init /\ [][NextConc]_vars

(***************************************************************************)
(* File operations that fail                                               *)
(*                                                                         *)
(* Every open() and the os.remove may raise.  f names the one call of the  *)
(* handler that raises, if the handler gets that far: "scan" the open of   *)
(* the duplicate check, "count" and "append" the two opens of log_vote,    *)
(* "read" the open of read_results, "remove" the os.remove and "create"    *)
(* the open of _ensure_file_exists.  The variable fault keeps the call     *)
(* that did raise in the last handler, "none" if none did.                 *)
(***************************************************************************)
ClickFaults == {"none", "scan", "count", "append"}
ViewFaults == {"none", "read"}
ResetFaults == {"none", "remove", "create"}
StartFaults == {"none", "create"}

\* _ensure_file_exists: an IOError of the open is printed, nothing is created
EnsureFileExistsIO(fsys, path, f) ==
    IF f = "create" THEN fsys ELSE EnsureFileExists(fsys, path)

\* log_vote: an IOError of either open is printed, nothing is written
LogVoteIO(fsys, path, voter, choice, f) ==
    IF f = "append" \/ (f = "count" /\ Exists(fsys, path)) THEN fsys
    ELSE LogVote(fsys, path, voter, choice)

\* read_results: an IOError is printed, results keeps Jane and John only
ReadResultsIO(fsys, path, f) ==
    IF f = "read" THEN (Jane :> 0) @@ (John :> 0) ELSE ReadResults(fsys, path)

\* reset_counts: an exception of os.remove is printed, then
\* _ensure_file_exists runs all the same
ResetCountsIO(fsys, path, f) ==
    EnsureFileExistsIO(IF f = "remove" THEN fsys ELSE Remove(fsys, "data.csv"),
                       path, f)

\* on_button_click up to the end of the duplicate check, whose open may raise
CheckVoterIO(fsys, path, idText, f) ==
    IF f = "scan" /\ validate_input(Strip(idText)) /\ IsInt(Strip(idText))
    THEN "Error reading file."
    ELSE CheckVoter(fsys, path, idText)

\* ProjectWindow.on_button_click
OnButtonClickIO(idText, selection, lineText, f) ==
    \E checked \in {CheckVoterIO(fs, filename, idText, f)},
       choice \in {Choice(selection, lineText)} :
        \E accepted \in {checked = "" /\ choice.error = ""} :
            /\ accepted => (NumRecords(fs, filename) < MaxRecords
                            /\ succeeded < MaxRecords)
            /\ fs' = IF accepted
                     THEN LogVoteIO(fs, filename, Strip(idText), choice.name, f)
                     ELSE fs
            /\ label' = IF accepted THEN Thanks(choice.name) ELSE label
            /\ error' = IF checked # "" THEN checked ELSE choice.error
            /\ fault' = IF checked = "Error reading file." /\ f = "scan" THEN "scan"
                        ELSE IF accepted /\ f \in {"count", "append"} THEN f
                        ELSE "none"
            /\ succeeded' = IF accepted THEN succeeded + 1 ELSE succeeded
            /\ wiped' = IF accepted THEN 0 ELSE wiped
            /\ former' = IF last.op = "reset" THEN former ELSE {}
            /\ dialog' = NoDialog
            /\ last' = [op |-> "castVote", id |-> idText, selection |-> selection,
                        text |-> lineText]
            /\ UNCHANGED <<filename, procVars>>

\* ProjectWindow.view_results
ViewResultsIO(f) ==
    LET data == ReadResultsIO(fs, filename, f)
    IN  /\ dialog' = [open |-> TRUE, total |-> PopTotal(data).total,
                      counts |-> PopTotal(data).counts]
        /\ error' = ""
        /\ fault' = IF f = "read" \/ ~Exists(fs, filename) THEN "read" ELSE "none"
        /\ last' = [op |-> "getResults", id |-> <<>>, selection |-> "none",
                    text |-> <<>>]
        /\ former' = {}
        /\ UNCHANGED <<fs, filename, label, succeeded, wiped, procVars>>

\* ProjectWindow.reset_votes
ResetVotesIO(f) ==
    /\ fs' = ResetCountsIO(fs, filename, f)
    /\ label' = ResetLabel
    /\ error' = ""
    /\ fault' = IF f = "remove" \/ ~Exists(fs, "data.csv") THEN "remove"
                ELSE IF f = "create" THEN "create"
                ELSE "none"
    /\ dialog' = NoDialog
    /\ succeeded' = 0
    /\ wiped' = NumRecords(fs, filename)
    /\ former' = StoredVoters(fs, filename)
    /\ last' = [op |-> "reset", id |-> <<>>, selection |-> "none", text |-> <<>>]
    /\ UNCHANGED <<filename, procVars>>

\* ProjectWindow.__init__ of a new run of the program on the same directory
Startup(f) ==
    /\ fs' = EnsureFileExistsIO(fs, filename, f)
    /\ label' = NoLabel
    /\ error' = ""
    /\ fault' = IF f = "create" /\ ~Exists(fs, filename) THEN "create" ELSE "none"
    /\ dialog' = NoDialog
    /\ former' = {}
    /\ last' = [op |-> "init", id |-> <<>>, selection |-> "none", text |-> <<>>]
    /\ UNCHANGED <<filename, succeeded, wiped, procVars>>

CastVoteIO ==
    \E idText \in CallerTexts, selection \in Selections, f \in ClickFaults :
        \E lineText \in (IF selection = "other" THEN LineTexts ELSE {<<>>}) :
            OnButtonClickIO(idText, selection, lineText, f)

ViewIO == \E f \in ViewFaults : ViewResultsIO(f)

ResetIO == \E f \in ResetFaults : ResetVotesIO(f)

StartIO == \E f \in StartFaults : Startup(f)

NextIO == CastVoteIO \/ ViewIO \/ ResetIO \/ StartIO

SpecIO == Init /\ [][NextIO]_vars

(***************************************************************************)
(* A FileManager on any file                                               *)
(*                                                                         *)
(* FileManager takes the name of its file; its methods are called here     *)
(* directly, with no window in front of them.                              *)
(***************************************************************************)
\* the voter IDs and names log_vote is called with
LoggedVoters == {<<"1">>, <<"2">>}
LoggedNames == {Jane, John, <<"A", "l">>}

\* FileManager.__init__ with any of the file names
InitFM ==
    /\ filename \in Filenames
    /\ fs = EnsureFileExists([f \in Filenames |-> NoFile], filename)
    /\ label = NoLabel
    /\ error = ""
    /\ dialog = NoDialog
    /\ last = [op |-> "init", id |-> <<>>, selection |-> "none", text |-> <<>>]
    /\ succeeded = 0
    /\ wiped = 0
    /\ former = {}
    /\ fault = "none"
    /\ pc = [p \in {1, 2} |-> "idle"]
    /\ voter_id = [p \in {1, 2} |-> <<>>]
    /\ name = [p \in {1, 2} |-> <<>>]
    /\ total_votes = [p \in {1, 2} |-> 0]
    /\ result = [p \in {1, 2} |-> ""]

\* FileManager.log_vote(voter, choice)
FMLogVote(voter, choice) ==
    /\ NumRecords(fs, filename) < MaxRecords
    /\ fs' = LogVote(fs, filename, voter, choice)
    /\ dialog' = NoDialog
    /\ last' = [op |-> "log_vote", id |-> voter, selection |-> "none",
                text |-> choice]
    /\ UNCHANGED <<filename, label, error, succeeded, wiped, former, fault, procVars>>

\* FileManager.read_results()
FMReadResults ==
    LET data == ReadResults(fs, filename)
    IN  /\ dialog' = [open |-> TRUE, total |-> PopTotal(data).total,
                      counts |-> PopTotal(data).counts]
        /\ last' = [op |-> "read_results", id |-> <<>>, selection |-> "none",
                    text |-> <<>>]
        /\ UNCHANGED <<fs, filename, label, error, succeeded, wiped, former, fault,
                       procVars>>

\* FileManager.reset_counts()
FMResetCounts ==
    /\ fs' = ResetCounts(fs, filename)
    /\ dialog' = NoDialog
    /\ last' = [op |-> "reset_counts", id |-> <<>>, selection |-> "none",
                text |-> <<>>]
    /\ UNCHANGED <<filename, label, error, succeeded, wiped, former, fault, procVars>>

FMLogAny == \E voter \in LoggedVoters, choice \in LoggedNames : FMLogVote(voter, choice)

NextFM == FMLogAny \/ FMReadResults \/ FMResetCounts

SpecFM == InitFM /\ [][NextFM]_vars

(***************************************************************************)
(* Properties                                                              *)
(***************************************************************************)
\* the vote records of the log, header excluded, as lines <<voter, choice, n>>
RecordsOf(fsys, path) ==
    IF Exists(fsys, path) /\ fsys[path].lines # <<>> THEN Tail(fsys[path].lines)
    ELSE <<>>

Records == RecordsOf(fs, filename)

\* the voter IDs on record
VotersOf(fsys, path) ==
    {RecordsOf(fsys, path)[i][1] : i \in 1..Len(RecordsOf(fsys, path))}

\* how many records choose candidate c
VotesFor(c) == Cardinality({i \in 1..Len(Records) : Records[i][2] = c})

\* what getResults returns in the current state
Results == PopTotal(ReadResults(fs, filename))

\* the write-in names on_button_click accepts among those the user may type
WriteIns ==
    {Strip(t) : t \in {u \in LineTexts : validate_input(Strip(u)) /\ ~IsInt(Strip(u))}}
        \ {Jane, John}

DefaultResults == [open |-> TRUE, total |-> 0, counts |-> (Jane :> 0) @@ (John :> 0)]

DuplicateMessage == "This Voter ID has already been used. You cannot vote again."

\* the inputs of a castVote call that the input rules reject
InvalidCall(call) ==
    \/ ~validate_input(Strip(call.id))
    \/ ~IsInt(Strip(call.id))
    \/ call.selection = "none"
    \/ /\ call.selection = "other"
       /\ (~validate_input(Strip(call.text)) \/ IsInt(Strip(call.text)))

\* C1: the total getResults reports equals the number of castVote calls that
\* succeeded since the store was last empty, and the number of records.
C1_TotalIsSucceeded ==
    /\ Results.total = succeeded
    /\ succeeded = Len(Records)
    /\ dialog.open => dialog.total = succeeded

C1_Witness ==
    /\ last.op = "getResults"
    /\ dialog.open
    /\ dialog.total = 2
    /\ succeeded = 2

\* C2: a castVote whose trimmed voterId is already on record fails with
\* DuplicateVoterError whatever the candidate, and getResults is unchanged.
C2_DuplicateRejected ==
    [][(/\ last'.op = "castVote"
        /\ Strip(last'.id) \in VotersOf(fs, filename))
       => /\ ErrorKind(error') = "DuplicateVoterError"
          /\ ReadResults(fs', filename) = ReadResults(fs, filename)
          /\ fs' = fs]_vars

C2_Witness ==
    /\ last.op = "castVote"
    /\ last.id = <<" ", "1">>
    /\ last.selection = "john"
    /\ error = DuplicateMessage
    /\ Results.total = 1
    /\ Results.counts = (Jane :> 1) @@ (John :> 0)

\* C3: getResults right after resetElection shows Jane 0, John 0, total 0
\* and no write-in candidate.
C3_ResetThenResults ==
    [][(last.op = "reset" /\ last'.op = "getResults") => dialog' = DefaultResults]_vars

C3_Witness ==
    /\ last.op = "getResults"
    /\ label = ResetLabel
    /\ wiped = 2
    /\ dialog = DefaultResults

\* C4: a castVote with an empty or non-numeric voterId, no candidate
\* selected, or an empty or purely numeric write-in name is rejected with
\* InvalidInputError and leaves the record log unchanged.
C4_InvalidRejected ==
    [][(last'.op = "castVote" /\ InvalidCall(last'))
       => (ErrorKind(error') = "InvalidInputError" /\ fs' = fs)]_vars

\* C5: for every candidate name, the count getResults reports equals the
\* number of records whose choice is that name, and nothing else is reported.
C5_CountsMatchRecords ==
    \A c \in {Jane, John} \cup WriteIns \cup DOMAIN Results.counts :
        Get(Results.counts, c, 0) = VotesFor(c)

\* C6: getResults always lists both default candidates, and lists a write-in
\* name exactly when some record has that name as its choice.
C6_DefaultsAndWriteIns ==
    /\ {Jane, John} \subseteq DOMAIN Results.counts
    /\ \A c \in WriteIns : (c \in DOMAIN Results.counts) <=> (VotesFor(c) > 0)

\* C7: a resetElection right after a resetElection leaves the record log,
\* the results and the label as they were.
C7_ResetIdempotent ==
    [][(last.op = "reset" /\ last'.op = "reset")
       => /\ fs' = fs
          /\ ReadResults(fs', filename) = ReadResults(fs, filename)
          /\ label' = label]_vars

C7_Witness ==
    /\ last.op = "reset"
    /\ wiped = 0
    /\ fs[filename] = File(<<Header>>)
    /\ label = ResetLabel

\* C8: no two records of the log have the same voterId.
C8_VoterIdUnique ==
    \A i, j \in 1..Len(Records) : Records[i][1] = Records[j][1] => i = j

C8_Witness ==
    /\ Len(Records) = 2
    /\ last.op = "castVote"
    /\ error = DuplicateMessage
    /\ Strip(last.id) = Records[1][1]

\* C9: the i-th record of the log carries sequenceNumber i.
C9_SequenceNumbers ==
    \A i \in 1..Len(Records) : IsInt(Records[i][3]) /\ IntValue(Records[i][3]) = i

C9_Witness ==
    /\ Len(Records) = 2
    /\ Records[1][3] = <<"1">>
    /\ Records[2][3] = <<"2">>
    /\ last.op = "castVote"
    /\ error = ""

\* C10: of two castVote calls for the same voterId running concurrently,
\* at most one appends a record; the other fails with DuplicateVoterError.
C10_OneOfTwoAppends ==
    \A p, q \in Procs :
        (p # q /\ voter_id[p] # <<>> /\ voter_id[p] = voter_id[q])
            => ~(result[p] = "ok" /\ result[q] = "ok")

\* the sum of the counts of the candidates in keys
RECURSIVE SumCounts(_, _)
SumCounts(counts, keys) ==
    IF keys = {} THEN 0
    ELSE LET c == CHOOSE k \in keys : TRUE
         IN  counts[c] + SumCounts(counts, keys \ {c})

\* the candidate part of a castVote call that the input rules reject
InvalidCandidate(call) ==
    \/ call.selection = "none"
    \/ /\ call.selection = "other"
       /\ (~validate_input(Strip(call.text)) \/ IsInt(Strip(call.text)))

\* the candidate name a valid castVote call votes for
ResolvedName(call) ==
    IF call.selection = "jane" THEN Jane
    ELSE IF call.selection = "john" THEN John
    ELSE Strip(call.text)

\* C14: the total getResults returns equals the sum of the per-candidate
\* counts of the same mapping.
C14_TotalIsSum ==
    Results.total = SumCounts(Results.counts, DOMAIN Results.counts)

\* C15: castVote validates the candidate before the duplicate check: an
\* already-used voterId with no candidate or an empty or numeric write-in
\* name is rejected with InvalidInputError, not DuplicateVoterError.
C15_ValidationFirst ==
    [][(/\ last'.op = "castVote"
        /\ Strip(last'.id) \in VotersOf(fs, filename)
        /\ InvalidCandidate(last'))
       => ErrorKind(error') = "InvalidInputError"]_vars

\* C17: a successful castVote appends exactly one record, the voterId with
\* the resolved candidate name, and keeps the earlier records; getResults
\* leaves the log alone; only resetElection removes records.
C17_AppendOnly ==
    [][LET old == RecordsOf(fs, filename)
           new == RecordsOf(fs', filename)
       IN  /\ (last'.op = "castVote" /\ error' = "")
                => /\ Len(new) = Len(old) + 1
                   /\ SubSeq(new, 1, Len(old)) = old
                   /\ new[Len(new)][1] = Strip(last'.id)
                   /\ new[Len(new)][2] = ResolvedName(last')
           /\ last'.op = "getResults" => fs' = fs
           /\ last'.op # "reset"
                => (Len(new) >= Len(old) /\ SubSeq(new, 1, Len(old)) = old)]_vars

C17_Witness ==
    /\ last.op = "castVote"
    /\ error = ""
    /\ last.selection = "john"
    /\ Len(Records) = 2
    /\ Records[1][2] = <<"A", "l">>
    /\ Records[2] = <<Strip(last.id), John, <<"2">>>>

\* C18: right after a resetElection a valid castVote succeeds, also for a
\* voterId that had voted before the reset, and its record is numbered 1.
C18_VoteAfterReset ==
    [][(last.op = "reset" /\ last'.op = "castVote" /\ ~InvalidCall(last'))
       => /\ error' = ""
          /\ Len(RecordsOf(fs', filename)) = 1
          /\ RecordsOf(fs', filename)[1][1] = Strip(last'.id)
          /\ IntValue(RecordsOf(fs', filename)[1][3]) = 1]_vars

C18_Witness ==
    /\ last.op = "castVote"
    /\ error = ""
    /\ Strip(last.id) \in former
    /\ Len(Records) = 1
    /\ Records[1][1] = Strip(last.id)
    /\ Records[1][3] = <<"1">>

\* C20: a valid castVote whose voterId differs as a string from every
\* recorded one but equals one of them as a number is not a duplicate: it
\* appends a second record.
C20_IdentityIsString ==
    [][(/\ last'.op = "castVote"
        /\ ~InvalidCall(last')
        /\ Strip(last'.id) \notin VotersOf(fs, filename)
        /\ \E v \in VotersOf(fs, filename) : IntValue(v) = IntValue(Strip(last'.id)))
       => /\ error' = ""
          /\ Len(RecordsOf(fs', filename)) = Len(RecordsOf(fs, filename)) + 1
          /\ VotersOf(fs', filename) = VotersOf(fs, filename) \cup {Strip(last'.id)}]_vars

C20_Witness ==
    /\ last.op = "castVote"
    /\ last.id = <<"0", "1">>
    /\ error = ""
    /\ Len(Records) = 2
    /\ Records[1][1] = <<"1">>
    /\ Records[2][1] = <<"0", "1">>

\* C16: when two castVote calls with distinct voter IDs run concurrently,
\* the records they append receive distinct, consecutive sequenceNumbers:
\* a log whose voter IDs are all distinct is numbered 1, 2, ... in order.
C16_NumbersUnderConcurrency ==
    (\A i, j \in 1..Len(Records) : Records[i][1] = Records[j][1] => i = j)
        => \A i \in 1..Len(Records) : IntValue(Records[i][3]) = i

\* C11: when persisting the record fails with an I/O error, castVote
\* signals StorageError and leaves the log as it was; it reports success
\* only if the record was appended.
C11_WriteFailureSurfaced ==
    [][last'.op = "castVote"
       => /\ fault' \in {"count", "append"}
                => (ErrorKind(error') = "StorageError" /\ fs' = fs)
          /\ (error' = "" /\ label' = Thanks(ResolvedName(last')))
                => Len(RecordsOf(fs', filename)) = Len(RecordsOf(fs, filename)) + 1]_vars

\* C12: when the file cannot be removed or recreated, resetElection signals
\* StorageError and does not report success, and it never reports success
\* while records cast before the reset are still in the store.
C12_ResetFailureSurfaced ==
    [][last'.op = "reset"
       => /\ fault' \in {"remove", "create"}
                => (ErrorKind(error') = "StorageError" /\ label' # ResetLabel)
          /\ (error' = "" /\ label' = ResetLabel) => RecordsOf(fs', filename) = <<>>]_vars

\* C13: ensureInitialized creates a header-only store when the file is
\* absent, leaves an existing store as it is, raises no error, and doing it
\* again changes nothing.
C13_EnsureIdempotent ==
    [][(last'.op = "init" /\ fault' = "none")
       => /\ error' = ""
          /\ IF Exists(fs, filename) THEN fs' = fs
             ELSE fs' = [fs EXCEPT ![filename] = File(<<Header>>)]
          /\ EnsureFileExists(fs', filename) = fs']_vars

C13_Witness ==
    /\ last.op = "init"
    /\ fault = "none"
    /\ label = NoLabel
    /\ Len(Records) = 2

\* C19: for a FileManager on any file name, after reset_counts the same
\* instance's read_results reports total 0 and no voter is on record.
C19_ResetEmptiesOwnFile ==
    [][last'.op = "reset_counts"
       => /\ Get(ReadResults(fs', filename), Total, 0) = 0
          /\ VotersOf(fs', filename) = {}]_vars

====
